---- MODULE Spec2Model ----
(***************************************************************************)
(* Model of the PV forecasting core of public-promge:                      *)
(*   app/services/forecast_service.py                                      *)
(*     CyclicalFeatures.transform  (lag feature builder)                   *)
(*     train_model                 (trainer, writes the artifact)          *)
(*     predict_future              (recursive forecaster)                  *)
(* and of what feeds it:                                                   *)
(*   app/routes/main.py            (fetch, upload, create_forecast)        *)
(*   app/services/pse_service.py, meteo_service.py  (the stored tables)    *)
(*   app/core/calculator.py        (the other day-of-year encoder)         *)
(*                                                                         *)
(* Spec runs train_model and predict_future one call at a time; SpecEnc    *)
(* applies the two day-of-year encoders; SpecDb serves the routes on the   *)
(* store one request at a time; SpecConc interleaves two create_forecast   *)
(* requests on the shared model file; SpecFetch runs the HTTP fetchers of  *)
(* app/core/fetcher.py through their retries and except clauses.           *)
(*                                                                         *)
(* A table (pandas DataFrame) is a sequence of rows [t, w, y]: t is the    *)
(* index timestamp in hours, w the weather column, y the target column     *)
(* (pv_output).  A missing target value is NaN; a table without the        *)
(* target column (future_weather) carries NoColumn in y.                   *)
(* Real-valued quantities are integers here: the scaler centres a column   *)
(* on the floor of its mean, and the regressor's point prediction is       *)
(* folded into 0..ValMod-1 so that the fed-back history stays finite.      *)
(***************************************************************************)
EXTENDS Integers, Sequences, FiniteSets, TLC

\* ------------------------------------------------------------------ bounds
MaxShort == 4        \* short histories have 0..MaxShort rows
ExtraLong == 2       \* long histories have TailWindow..TailWindow+ExtraLong rows
MaxSmallLag == 2     \* small lag counts are 1..MaxSmallLag
MaxSteps == 3        \* steps in 1..MaxSteps, future_weather has 0..MaxSteps rows
ValMod == 7          \* predictions are folded into 0..ValMod-1
MaxDay == 3          \* the stored tables cover the days 1..MaxDay and the forecast days
MaxRequests == 4     \* requests served on the store
ForecastDays == 2    \* days of weather forecast the meteo service returns

\* --------------------------------------------------------------- constants
TailWindow == 24     \* df.tail(24)
HourPeriod == 24     \* df["dt_hour"] / 24
NaN == -1
NoColumn == -2
FutureStart == 100   \* first timestamp of the future weather rows
DayOfYearPeriod == 365   \* df["dt_dayofyear"] / 365
CommonYearLength == 365  \* is_leap_year.replace({True: 366, False: 365})
LeapYearLength == 366
RetryTotal == 5          \* Retry(total=5, ...)

NoArtifact ==
    [n_lags |-> 0, scaler |-> <<>>, columns |-> <<>>,
     model |-> [kind |-> "none", intercept |-> 0]]

\* ----------------------------------------------------------- list helpers
RECURSIVE SumSeq(_)
SumSeq(s) == IF Len(s) = 0 THEN 0 ELSE Head(s) + SumSeq(Tail(s))

\* DataFrame.tail(k)
TailRows(s, k) == IF Len(s) <= k THEN s ELSE SubSeq(s, Len(s) - k + 1, Len(s))

\* DataFrame.iloc[i:i+1] with a 0-based i: one row, or none past the end
ILocSlice(s, i) == IF i < Len(s) THEN <<s[i + 1]>> ELSE <<>>

\* Series.iloc[-L:]: Python's -0 is 0, so L = 0 selects the whole series
ILocLast(s, L) ==
    LET start == IF L = 0 THEN 0 ELSE IF L >= Len(s) THEN 0 ELSE Len(s) - L
    IN  SubSeq(s, start + 1, Len(s))

TargetColumn(df) == [j \in 1..Len(df) |-> df[j].y]

\* --------------------------------------------- CyclicalFeatures.transform
\* (a shift that is one row too short: lag 1 is the row's own target)
ShiftTooShort(X, p, k) == IF p - k + 1 >= 1 THEN X[p - k + 1].y ELSE NaN

\* (a shift that is one row too long)
ShiftTooFar(X, p, k) == IF p - k - 1 >= 1 THEN X[p - k - 1].y ELSE NaN

\* df[pv_output].shift(k) at row p: the target k rows earlier, NaN before the start
Shift(X, p, k) == IF p - k >= 1 THEN X[p - k].y ELSE NaN

LagCols(X, p, n) == [k \in 1..n |-> Shift(X, p, k)]

\* (dropna(how="all"): a row goes only when every lag column is missing)
KeptPositionsHowAll(X, n) ==
    SelectSeq([p \in 1..Len(X) |-> p],
              LAMBDA p : \E k \in 1..n : Shift(X, p, k) # NaN)

\* dropna(subset=lag_cols): the positions whose lag columns are all present
KeptPositions(X, n) ==
    SelectSeq([p \in 1..Len(X) |-> p],
              LAMBDA p : \A k \in 1..n : Shift(X, p, k) # NaN)

\* one output row: index, weather, calendar column, lags; the target is dropped
FeatureRow(X, p, n) ==
    [t |-> X[p].t, w |-> X[p].w, dt_hour |-> X[p].t % HourPeriod,
     lags |-> LagCols(X, p, n)]

Transform(X, n) ==
    LET keep == KeptPositions(X, n)
    IN  [j \in 1..Len(keep) |-> FeatureRow(X, keep[j], n)]

\* the numeric columns of a feature row, in column order
FeatureVector(f) == <<f.w, f.dt_hour>> \o f.lags

\* ----------------------------------------------------------- StandardScaler
ScalerFit(F) ==
    [c \in 1..Len(FeatureVector(F[1])) |->
        SumSeq([j \in 1..Len(F) |-> FeatureVector(F[j])[c]]) \div Len(F)]

ScalerTransform(mean, F) ==
    [j \in 1..Len(F) |->
        [c \in 1..Len(mean) |-> FeatureVector(F[j])[c] - mean[c]]]

\* (fit_transform at prediction time: the statistics are refit on the window)
ScaleRefit(scaler, F) ==
    [scaler |-> ScalerFit(F), X |-> ScalerTransform(ScalerFit(F), F)]

\* scaler.transform(features): the scaled rows, and the scaler's statistics
\* after the call, which transform leaves as they were
ScaleApply(scaler, F) == [scaler |-> scaler, X |-> ScalerTransform(scaler, F)]

\* ---------------------------------------------------------------- regressor
ModelFit(kind, Xs, y) == [kind |-> kind, intercept |-> SumSeq(y) \div Len(y)]

ModelPredict(m, x) == (m.intercept + SumSeq(x)) % ValMod

\* ------------------------------------------------------------ column names
\* A column name; the lag columns f"{pv_output}_lag_{i}" carry their i.
Col(name) == [name |-> name, lag |-> 0]

LagCol(name, i) == [name |-> name, lag |-> i]

ColumnSet(cols) == {cols[j] : j \in 1..Len(cols)}

\* the target column create_forecast names in both calls
PvOutput == Col("fcst_pv_tot_gen")

\* the generation table once plan_dtime is the index and business_date is dropped
GenerationColumns == <<Col("fcst_pv_tot_gen")>>

\* the meteo table once time is the index and business_date is dropped
MeteoColumns ==
    <<Col("temperature_2m"), Col("cloud_cover"), Col("wind_speed_10m"),
      Col("wind_gusts_10m"), Col("relative_humidity_2m"), Col("shortwave_radiation"),
      Col("direct_radiation"), Col("diffuse_radiation"),
      Col("global_tilted_irradiance"), Col("direct_normal_irradiance"),
      Col("terrestrial_radiation")>>

\* generation_df.join(meteo_df, how="inner"): the caller's columns, then the other's
JoinColumns(a, b) == a \o b

\* joined_df
HistoryColumns == JoinColumns(GenerationColumns, MeteoColumns)

\* meteo_forecast_df = meteo_df[mask]: a row selection keeps the columns
FutureColumns == MeteoColumns

\* the columns of a list that belong to a set, in the list's order
KeepColumns(cols, S) == SelectSeq(cols, LAMBDA c : c \in S)

\* df[c] = ...: an existing column keeps its place, a new one goes last
AssignColumn(cols, c) == IF c \in ColumnSet(cols) THEN cols ELSE Append(cols, c)

\* a run of assignments of distinct columns
AssignColumns(cols, new) == cols \o KeepColumns(new, ColumnSet(new) \ ColumnSet(cols))

\* the calendar columns in the order transform assigns them
DtColumns ==
    <<Col("dt_hour"), Col("dt_dayofyear"), Col("dt_month"),
      Col("dt_hour_sin"), Col("dt_hour_cos"),
      Col("dt_dayofyear_sin"), Col("dt_dayofyear_cos"),
      Col("dt_month_sin"), Col("dt_month_cos")>>

LagColumns(pv, n) == [i \in 1..n |-> LagCol(pv.name, i)]

\* the columns of transform's output: the input's, the calendar columns, the
\* lag columns, without the target
TransformColumns(cols, pv, n) ==
    LET assigned == AssignColumns(AssignColumns(cols, DtColumns), LagColumns(pv, n))
    IN  KeepColumns(assigned, ColumnSet(assigned) \ {pv})

\* the input columns in alphabetical order
Alphabetical ==
    <<Col("cloud_cover"), Col("diffuse_radiation"), Col("direct_normal_irradiance"),
      Col("direct_radiation"), Col("fcst_pv_tot_gen"), Col("global_tilted_irradiance"),
      Col("relative_humidity_2m"), Col("shortwave_radiation"), Col("temperature_2m"),
      Col("terrestrial_radiation"), Col("wind_gusts_10m"), Col("wind_speed_10m")>>

\* (a concat that sorts the columns, sort=True)
ConcatColumnsSorted(a, b) ==
    KeepColumns(Alphabetical, ColumnSet(a) \cup ColumnSet(b))

\* pd.concat([a, b]): the columns of a, then those only b has
ConcatColumns(a, b) == a \o KeepColumns(b, ColumnSet(b) \ ColumnSet(a))

\* ------------------------------------------------------------- train_model
\* the if/elif chain over model_name; no branch binds module for other names
ModuleFor(model_name) ==
    IF model_name \in {"LinearRegression", "Ridge", "Lasso"} THEN "sklearn.linear_model"
    ELSE IF model_name \in {"DecisionTreeRegressor"} THEN "sklearn.tree"
    ELSE IF model_name \in {"RandomForestRegressor", "GradientBoostingRegressor"}
         THEN "sklearn.ensemble"
    ELSE IF model_name \in {"SVR"} THEN "sklearn.svm"
    ELSE IF model_name \in {"KNeighborsRegressor"} THEN "sklearn.neighbors"
    ELSE IF model_name \in {"MLPRegressor"} THEN "sklearn.neural_network"
    ELSE "unbound"

\* y.iloc[-len(X_trans):]
AlignLabels(y, X_trans) == ILocLast(y, Len(X_trans))

\* pipeline.fit(X, y_aligned): features, then the scaler, then the regressor.
\* The scaler refuses a table without rows; the regressor refuses labels whose
\* count differs from the rows or that hold NaN.
PipelineFit(X, y, n_lags, model_name) ==
    LET Xt == Transform(X, n_lags)
    IN  IF Len(Xt) = 0
        THEN [error |-> "ValueError", fitted |-> FALSE, artifact |-> NoArtifact]
        ELSE LET mean == ScalerFit(Xt)
                 Xs == ScalerTransform(mean, Xt)
             IN  IF Len(Xs) # Len(y) \/ (\E j \in 1..Len(y) : y[j] = NaN)
                 THEN [error |-> "ValueError", fitted |-> FALSE, artifact |-> NoArtifact]
                 ELSE [error |-> "none", fitted |-> TRUE,
                       artifact |-> [n_lags |-> n_lags, scaler |-> mean,
                                     columns |->
                                         TransformColumns(HistoryColumns, PvOutput, n_lags),
                                     model |-> ModelFit(model_name, Xs, y)]]

\* the whole call: its locals, its outcome and the artifact it dumps (if any)
TrainModel(df, model_name, n_lags) ==
    IF ModuleFor(model_name) = "unbound"
    THEN [status |-> "error", error |-> "UnboundLocalError", df |-> df,
          model_name |-> model_name, n_lags |-> n_lags, X_trans |-> <<>>,
          y_aligned |-> <<>>, transformed |-> FALSE, fitted |-> FALSE,
          dumped |-> FALSE, artifact |-> NoArtifact]
    ELSE LET X_trans == Transform(df, n_lags)
             y_aligned == AlignLabels(TargetColumn(df), X_trans)
             fit == PipelineFit(df, y_aligned, n_lags, model_name)
         IN  [status |-> IF fit.error = "none" THEN "trained" ELSE "error",
              error |-> fit.error, df |-> df, model_name |-> model_name,
              n_lags |-> n_lags, X_trans |-> X_trans, y_aligned |-> y_aligned,
              transformed |-> TRUE, fitted |-> fit.fitted,
              dumped |-> fit.error = "none", artifact |-> fit.artifact]

NoTrain ==
    [status |-> "none", error |-> "none", df |-> <<>>, model_name |-> "none",
     n_lags |-> 0, X_trans |-> <<>>, y_aligned |-> <<>>, transformed |-> FALSE,
     fitted |-> FALSE, dumped |-> FALSE, artifact |-> NoArtifact]

\* ---------------------------------------------------------- frames in memory
\* A local DataFrame variable: its rows (val) and whose memory they are: "own"
\* for a fresh object, or the caller's table it is a view of (rows at+1.. of it).
OwnFrame(rows) == [of |-> "own", at |-> 0, val |-> rows]

ViewOf(name, rows) == [of |-> name, at |-> 0, val |-> rows]

\* future_weather.iloc[i:i+1]: a view of row i of the caller's table
ILocView(name, rows, i) == [of |-> name, at |-> i, val |-> ILocSlice(rows, i)]

\* (no copy: the variable keeps pointing into the caller's table)
NoCopyFrame(v) == v

\* DataFrame.copy(): the same rows in a fresh object
CopyFrame(v) == [of |-> "own", at |-> 0, val |-> v.val]

\* frame[pv_output] = value: an assignment in place to every row of the frame
SetColumn(v, value) ==
    [v EXCEPT !.val = [j \in 1..Len(v.val) |-> [v.val[j] EXCEPT !.y = value]]]

\* pd.concat([a, b]): a fresh object holding the rows of a, then those of b
ConcatFrames(a, b) == OwnFrame(a.val \o b.val)

\* what the caller's table `name` holds after frame v was assigned in place
WriteThrough(table, name, v) ==
    IF v.of = name
    THEN [j \in 1..Len(table) |->
            IF j > v.at /\ j <= v.at + Len(v.val) THEN v.val[j - v.at] ELSE table[j]]
    ELSE table

\* ---------------------------------------------------------- predict_future
\* (future_weather.index[1:steps+1]: the index taken one row late)
FutureIndexLate(future_weather, steps) ==
    [j \in 1..(IF steps < Len(future_weather) - 1 THEN steps
               ELSE IF Len(future_weather) = 0 THEN 0 ELSE Len(future_weather) - 1)
        |-> future_weather[j + 1].t]

\* future_weather.index[:steps]
FutureIndex(future_weather, steps) ==
    [j \in 1..(IF steps < Len(future_weather) THEN steps ELSE Len(future_weather))
        |-> future_weather[j].t]

\* pd.DataFrame({"plan_dtime": index, "pv_output": preds}): columns of equal length
SameLength(index, preds) == Len(index) = Len(preds)

ForecastFrame(index, preds) ==
    [j \in 1..Len(index) |-> [plan_dtime |-> index[j], pv_output |-> preds[j]]]

\* (the row fed back keeps the placeholder)
FeedBackPlaceholder(row, y_pred) == CopyFrame(row)

\* new_row = row.copy(); new_row[pv_output] = y_pred
FeedBack(row, y_pred) == SetColumn(CopyFrame(row), y_pred)

IdleCall ==
    [pc |-> "idle", error |-> "none",
     history_df |-> <<>>, future_weather |-> <<>>,
     in_history |-> <<>>, in_future |-> <<>>, steps |-> 0,
     pipeline |-> NoArtifact, in_pipeline |-> NoArtifact,
     df |-> OwnFrame(<<>>), df_cols |-> <<>>, cols |-> <<>>, i |-> 0,
     preds |-> <<>>, feats |-> <<>>, window |-> <<>>, result |-> <<>>]

\* one pass of the loop body (lines 103-120) on the call's locals
LoopStep(c) ==
    LET row0 == CopyFrame(ILocView("future", c.future_weather, c.i))
    IN  IF Len(c.df.val) = 0
        THEN \* df[pv_output].iloc[-1] on an empty history
             [c EXCEPT !.pc = "failed", !.error = "IndexError"]
        ELSE
        LET placeholder == c.df.val[Len(c.df.val)].y
            row == SetColumn(row0, placeholder)
            fw1 == WriteThrough(c.future_weather, "future", row)
            window == ConcatFrames(OwnFrame(TailRows(c.df.val, TailWindow)), row)
            features == TailRows(Transform(window.val, c.pipeline.n_lags), 1)
            row_cols == AssignColumn(FutureColumns, PvOutput)
            window_cols == ConcatColumns(c.df_cols, row_cols)
        IN  IF Len(features) = 0
            THEN \* the scaler refuses a table without rows
                 [c EXCEPT !.pc = "failed", !.error = "ValueError",
                           !.future_weather = fw1]
            ELSE
            LET scaled == ScaleApply(c.pipeline.scaler, features)
                X_scaled == scaled.X
                y_pred == ModelPredict(c.pipeline.model, X_scaled[1])
                new_row == FeedBack(row, y_pred)
                fw2 == WriteThrough(fw1, "future", new_row)
                df2 == ConcatFrames(c.df, new_row)
            IN  [c EXCEPT !.pipeline.scaler = scaled.scaler,
                          !.future_weather = fw2,
                          !.history_df = WriteThrough(@, "history", df2),
                          !.df = df2,
                          !.df_cols = ConcatColumns(@, row_cols),
                          !.cols = TransformColumns(window_cols, PvOutput,
                                                    c.pipeline.n_lags),
                          !.preds = Append(@, y_pred),
                          !.feats = Append(@, features[1]),
                          !.window = window.val,
                          !.i = @ + 1]

\* lines 122-124: the result table, or pandas' error for columns of unequal length
Finish(c) ==
    LET future_index == FutureIndex(c.future_weather, c.steps)
    IN  IF SameLength(future_index, c.preds)
        THEN [c EXCEPT !.pc = "returned",
                       !.result = ForecastFrame(future_index, c.preds)]
        ELSE [c EXCEPT !.pc = "failed", !.error = "ValueError"]

\* lines 97-100: joblib.load(model_path), df = history_df.copy(), preds = []
StartCall(artifact, history_df, future_weather, steps) ==
    IF artifact = NoArtifact
    THEN [IdleCall EXCEPT !.pc = "failed", !.error = "FileNotFoundError",
                          !.history_df = history_df,
                          !.future_weather = future_weather,
                          !.in_history = history_df,
                          !.in_future = future_weather,
                          !.steps = steps]
    ELSE [IdleCall EXCEPT !.pc = "loop",
                          !.history_df = history_df,
                          !.future_weather = future_weather,
                          !.in_history = history_df,
                          !.in_future = future_weather,
                          !.steps = steps,
                          !.pipeline = artifact,
                          !.in_pipeline = artifact,
                          !.df = CopyFrame(ViewOf("history", history_df)),
                          !.df_cols = HistoryColumns]

\* the loop and the return of a call that runs without interruption
RECURSIVE RunLoop(_)
RunLoop(c) ==
    IF c.pc # "loop" THEN c
    ELSE IF c.i < c.steps THEN RunLoop(LoopStep(c))
    ELSE Finish(c)

\* predict_future from start to return or raise
PredictFuture(artifact, history_df, future_weather, steps) ==
    RunLoop(StartCall(artifact, history_df, future_weather, steps))

\* ------------------------------------------------------------------ inputs
HistoryTable(R, q) ==
    [j \in 1..R |-> [t |-> j, w |-> j % 3, y |-> IF j = q THEN NaN ELSE j]]

FutureTable(m) ==
    [j \in 1..m |-> [t |-> FutureStart + j - 1, w |-> (FutureStart + j) % 3,
                     y |-> NoColumn]]

Histories ==
    {HistoryTable(R, q) : R \in 0..MaxShort, q \in 0..MaxShort}
    \cup {HistoryTable(R, 0) : R \in TailWindow..(TailWindow + ExtraLong)}

Futures == {FutureTable(m) : m \in 0..MaxSteps}

NLags == (1..MaxSmallLag) \cup {TailWindow, TailWindow + 1}

ModelNames == {"Ridge", "RandomForestRegressor", "XGBRegressor"}

\* ------------------------------------------------- day-of-year encoders
\* Timestamp.is_leap_year
IsLeapYear(year) == (year % 4 = 0 /\ year % 100 # 0) \/ year % 400 = 0

\* the last day-of-year value a timestamp of the year can have
DaysInYear(year) == IF IsLeapYear(year) THEN LeapYearLength ELSE CommonYearLength

\* services/forecast_service.py: sin and cos of 2 pi dt_dayofyear / 365
ServiceDenominator(year) == DayOfYearPeriod

\* core/calculator.py with cycles["dayofyear"] = "leap": the row's year length
CalculatorDenominator(year) ==
    IF IsLeapYear(year) THEN LeapYearLength ELSE CommonYearLength

\* the encoded angle as a fraction of the full turn
Encoded(encoder, year, dayofyear, denom) ==
    [encoder |-> encoder, year |-> year, dayofyear |-> dayofyear,
     denominator |-> denom]

NoEncoding == Encoded("none", 0, 0, 0)

\* the calendar years of the rows encoded
Years == {1900, 2000, 2023, 2024}

\* ------------------------------------------------------ the stored tables
\* the day the requests are served on
Today == MaxDay

\* fetch_data_pse: the rows of one day after another, in date order
GenerationRows(start, end) ==
    [j \in 1..(end - start + 1) |-> [t |-> start + j - 1, y |-> start + j - 1]]

\* fetch_data_meteo with a date range: the rows of the range in date order
MeteoRows(start, end) ==
    [j \in 1..(end - start + 1) |-> [t |-> start + j - 1, w |-> (start + j - 1) % 3]]

\* fetch_data_meteo without dates: the forecast from today on
ForecastRows == MeteoRows(Today, Today + ForecastDays - 1)

\* files a user uploads: rows in the file's order
UploadFiles ==
    {GenerationRows(1, 2),
     <<[t |-> 2, y |-> 2], [t |-> 1, y |-> 1]>>,
     <<[t |-> MaxDay, y |-> 0]>>}

\* to_sql(if_exists="append"): the new rows go after the stored ones
SaveToDb(table, rows) == table \o rows

\* select(table) into a DataFrame: every stored row, in stored order
LoadFromDb(table) == table

\* the rows of meteo that share the index value of a generation row
JoinRow(g, meteo) ==
    LET matches == SelectSeq(meteo, LAMBDA m : m.t = g.t)
    IN  [k \in 1..Len(matches) |-> [t |-> g.t, w |-> matches[k].w, y |-> g.y]]

RECURSIVE JoinFrom(_, _, _)
JoinFrom(generation, meteo, j) ==
    IF j > Len(generation) THEN <<>>
    ELSE JoinRow(generation[j], meteo) \o JoinFrom(generation, meteo, j + 1)

\* generation_df.join(meteo_df, how="inner")
InnerJoin(generation, meteo) == JoinFrom(generation, meteo, 1)

IndexSet(table) == {table[j].t : j \in 1..Len(table)}

\* meteo_df[~meteo_df.index.isin(generation_df.index)]
NotInIndex(meteo, generation) ==
    LET kept == SelectSeq(meteo, LAMBDA m : m.t \notin IndexSet(generation))
    IN  [k \in 1..Len(kept) |-> [t |-> kept[k].t, w |-> kept[k].w, y |-> NoColumn]]

EmptyDb == [pse |-> <<>>, meteo |-> <<>>, requests |-> 0]

NoResponse ==
    [status |-> "none", error |-> "none", history_df |-> <<>>,
     future_weather |-> <<>>, steps |-> 0, result |-> <<>>]

\* create_forecast, lines 115-123 and the except branch
CreateForecastResponse(d, artifact, model_name, steps, n_lags) ==
    IF Len(d.pse) = 0 \/ Len(d.meteo) = 0
    THEN \* load_from_db: the table does not exist
         [response |-> [NoResponse EXCEPT !.status = "error", !.error = "RuntimeError"],
          store |-> artifact]
    ELSE
    LET generation_df == LoadFromDb(d.pse)
        meteo_df == LoadFromDb(d.meteo)
        joined_df == InnerJoin(generation_df, meteo_df)
        meteo_forecast_df == NotInIndex(meteo_df, generation_df)
        trained == TrainModel(joined_df, model_name, n_lags)
        file == IF trained.dumped THEN trained.artifact ELSE artifact
        tables == [NoResponse EXCEPT !.history_df = joined_df,
                                     !.future_weather = meteo_forecast_df,
                                     !.steps = steps]
    IN  IF trained.status # "trained"
        THEN [response |-> [tables EXCEPT !.status = "error", !.error = trained.error],
              store |-> file]
        ELSE LET c == PredictFuture(file, joined_df, meteo_forecast_df, steps)
             IN  IF c.pc = "returned"
                 THEN [response |-> [tables EXCEPT !.status = "ok", !.result = c.result],
                       store |-> file]
                 ELSE [response |-> [tables EXCEPT !.status = "error", !.error = c.error],
                       store |-> file]

\* ------------------------------------------------- requests side by side
\* create_forecast requests served by the worker threads at the same time
Requests == {1, 2}

\* the tables the requests find in the store
RequestHistories == {HistoryTable(MaxShort - 1, 0), HistoryTable(MaxShort, 0)}

RequestLags == {1, MaxSmallLag}

RequestSteps == {MaxSteps - 1, MaxSteps}

RequestModels == {"Ridge", "RandomForestRegressor"}

NoRequest ==
    [phase |-> "idle", history_df |-> <<>>, trained |-> NoArtifact,
     call |-> IdleCall, overlapped |-> FALSE]

\* (df is one module-level table all the activations work on)
CallLocalsSharedDf(c, r) == [c[r].call EXCEPT !.df = c[1].call.df]

\* (preds is one module-level list all the activations append to)
CallLocalsSharedPreds(c, r) == [c[r].call EXCEPT !.preds = c[1].call.preds]

\* lines 97-100: pipeline, df, preds, row are locals of the activation
CallLocals(c, r) == c[r].call

\* ------------------------------------------------------- the HTTP fetchers
\* what one attempt of session.get can meet
AttemptOutcomes == {"response", "retry_status", "connection_error", "connect_timeout"}

\* the status of a response that reaches the caller: 2xx, or an error status
\* outside status_forcelist (e.g. 404)
ResponseStatuses == {"ok", "error_status"}

\* the body of a 2xx response: JSON with the data key, JSON without it, not JSON
ResponseBodies == {"with_key", "without_key", "not_json"}

\* the names requests.exceptions defines and the handlers or the library use
RequestsExceptions ==
    {"RequestException", "HTTPError", "ConnectionError", "ConnectTimeout",
     "RetryError", "JSONDecodeError"}

\* all of them derive from RequestException
IsSubclass(name, base) ==
    name = base \/ (base = "RequestException" /\ name \in RequestsExceptions)

\* HTTPAdapter.send once the retries are used up
ExhaustedError(outcome) ==
    IF outcome = "retry_status" THEN "RetryError"
    ELSE IF outcome = "connect_timeout" THEN "ConnectTimeout"
    ELSE "ConnectionError"

\* the class each function names in its except clause
HandlerClass(fn) ==
    IF fn = "fetch_data_pse_inner" THEN "RequestException" ELSE "RequestsException"

\* an exception raised in the try block meets the except clause: the clause's
\* expression is evaluated first, and a missing attribute raises AttributeError
ExceptClause(fn, raised) ==
    IF HandlerClass(fn) \notin RequestsExceptions
    THEN [outcome |-> "raised", error |-> "AttributeError"]
    ELSE IF IsSubclass(raised, HandlerClass(fn))
    THEN [outcome |-> "empty", error |-> "none"]
    ELSE [outcome |-> "raised", error |-> raised]

Fetchers == {"fetch_data_pse_inner", "fetch_data_meteo"}

\* fetch_data_meteo asks the history endpoint with dates, the forecast one without
Endpoints(fn) ==
    IF fn = "fetch_data_meteo" THEN {"history", "forecast"} ELSE {"pse"}

NoFetch ==
    [fn |-> "none", endpoint |-> "none", pc |-> "idle", retries |-> 0,
     met |-> "none", status |-> "none", body |-> "none", raised |-> "none",
     outcome |-> "none", error |-> "none"]

\* ------------------------------------------------------------------- state
VARIABLES
    store,   \* the artifact in the file model_path ("pv_model.pkl"), or NoArtifact
    prior,   \* what the file held when the latest train_model call began
    train,   \* the latest train_model call: its arguments, locals and outcome
    call,    \* the predict_future call: its arguments, locals and outcome
    enc,     \* the latest row a day-of-year encoder was applied to
    db,      \* the pse and meteo tables of the database, and the requests served
    web,     \* the latest create_forecast request: its tables and its response
    conc,    \* the create_forecast requests that run side by side
    fetch    \* the latest call of an HTTP fetcher: its position and outcome

vars == <<store, prior, train, call, enc, db, web, conc, fetch>>

\* the state outside the trainer and the forecaster
sideVars == <<enc, db, web, conc, fetch>>

Init ==
    /\ store = NoArtifact
    /\ prior = NoArtifact
    /\ train = NoTrain
    /\ call = IdleCall
    /\ enc = NoEncoding
    /\ db = EmptyDb
    /\ web = NoResponse
    /\ conc = [r \in Requests |-> NoRequest]
    /\ fetch = NoFetch

\* train_model(df, pv_output, model_name, n_lags=n_lags), start to return or raise
TrainModelCall(df, model_name, n_lags) ==
    /\ call.pc = "idle"
    /\ train.status = "none"
    /\ train' = TrainModel(df, model_name, n_lags)
    /\ prior' = store
    /\ store' = IF train'.dumped THEN train'.artifact ELSE store
    /\ UNCHANGED call
    /\ UNCHANGED sideVars

\* the caller has the call's outcome; its frame is gone, the file stays
TrainModelReturn ==
    /\ train.status # "none"
    /\ train' = NoTrain
    /\ prior' = NoArtifact
    /\ UNCHANGED <<store, call>>
    /\ UNCHANGED sideVars

\* predict_future up to the loop: joblib.load(model_path), df = history_df.copy()
PredictStart(history_df, future_weather, steps) ==
    /\ call.pc = "idle"
    /\ train.status = "none"
    /\ call' = StartCall(store, history_df, future_weather, steps)
    /\ UNCHANGED <<store, prior, train>>
    /\ UNCHANGED sideVars

\* for i in range(steps): one iteration
PredictStep ==
    /\ call.pc = "loop"
    /\ call.i < call.steps
    /\ call' = LoopStep(call)
    /\ UNCHANGED <<store, prior, train>>
    /\ UNCHANGED sideVars

\* the loop is over: build and return the forecast
PredictFinish ==
    /\ call.pc = "loop"
    /\ call.i = call.steps
    /\ call' = Finish(call)
    /\ UNCHANGED <<store, prior, train>>
    /\ UNCHANGED sideVars

\* the caller has the forecast or the exception; the call's frame is gone
PredictReturn ==
    /\ call.pc \in {"returned", "failed"}
    /\ call' = IdleCall
    /\ UNCHANGED <<store, prior, train>>
    /\ UNCHANGED sideVars

Next ==
    \/ \E df \in Histories, model_name \in ModelNames, n_lags \in NLags :
           TrainModelCall(df, model_name, n_lags)
    \/ \E history_df \in Histories, future_weather \in Futures, steps \in 1..MaxSteps :
           PredictStart(history_df, future_weather, steps)
    \/ TrainModelReturn
    \/ PredictStep
    \/ PredictFinish
    \/ PredictReturn

Spec == Init /\ [][Next]_vars

\* ----------------------------------------------- the encoders on their own
\* CyclicalFeatures.transform of forecast_service on a row of the given day
EncodeService(year, dayofyear) ==
    /\ enc = NoEncoding
    /\ enc' = Encoded("forecast_service", year, dayofyear, ServiceDenominator(year))
    /\ UNCHANGED <<store, prior, train, call, db, web, conc, fetch>>

\* CyclicalFeatures.transform of calculator on a row of the given day
EncodeCalculator(year, dayofyear) ==
    /\ enc = NoEncoding
    /\ enc' = Encoded("calculator", year, dayofyear, CalculatorDenominator(year))
    /\ UNCHANGED <<store, prior, train, call, db, web, conc, fetch>>

\* the encoded table is handed on; the next table is encoded afresh
EncodeReturn ==
    /\ enc # NoEncoding
    /\ enc' = NoEncoding
    /\ UNCHANGED <<store, prior, train, call, db, web, conc, fetch>>

NextEnc ==
    \/ \E year \in Years : \E dayofyear \in 1..DaysInYear(year) :
           EncodeService(year, dayofyear)
    \/ \E year \in Years : \E dayofyear \in 1..DaysInYear(year) :
           EncodeCalculator(year, dayofyear)
    \/ EncodeReturn

SpecEnc == Init /\ [][NextEnc]_vars

\* ------------------------------------------------ the routes on the store
\* GET /fetch_generation: fetch_data, then save_to_db
FetchGeneration(start, end) ==
    /\ db.requests < MaxRequests
    /\ db' = [db EXCEPT !.pse = SaveToDb(@, GenerationRows(start, end)),
                        !.requests = @ + 1]
    /\ UNCHANGED <<store, prior, train, call, enc, web, conc, fetch>>

\* GET /fetch_meteo: fetch_history, then save_to_db
FetchMeteo(start, end) ==
    /\ db.requests < MaxRequests
    /\ db' = [db EXCEPT !.meteo = SaveToDb(@, MeteoRows(start, end)),
                        !.requests = @ + 1]
    /\ UNCHANGED <<store, prior, train, call, enc, web, conc, fetch>>

\* GET /fetch_meteo_forecast: fetch_forecast, then save_to_db
FetchMeteoForecast ==
    /\ db.requests < MaxRequests
    /\ db' = [db EXCEPT !.meteo = SaveToDb(@, ForecastRows),
                        !.requests = @ + 1]
    /\ UNCHANGED <<store, prior, train, call, enc, web, conc, fetch>>

\* POST /upload: load_from_file, then save_to_db
Upload(file) ==
    /\ db.requests < MaxRequests
    /\ db' = [db EXCEPT !.pse = SaveToDb(@, file),
                        !.requests = @ + 1]
    /\ UNCHANGED <<store, prior, train, call, enc, web, conc, fetch>>

\* GET /create_forecast
CreateForecast(model_name, steps, n_lags) ==
    /\ db.requests < MaxRequests
    /\ LET r == CreateForecastResponse(db, store, model_name, steps, n_lags)
       IN  /\ web' = r.response
           /\ store' = r.store
    /\ db' = [db EXCEPT !.requests = @ + 1]
    /\ UNCHANGED <<prior, train, call, enc, conc, fetch>>

NextDb ==
    \/ \E start \in 1..Today : \E end \in start..Today : FetchGeneration(start, end)
    \/ \E start \in 1..Today : \E end \in start..Today : FetchMeteo(start, end)
    \/ FetchMeteoForecast
    \/ \E file \in UploadFiles : Upload(file)
    \/ \E model_name \in ModelNames, steps \in 1..MaxSteps, n_lags \in 1..MaxSmallLag :
           CreateForecast(model_name, steps, n_lags)

SpecDb == Init /\ [][NextDb]_vars

\* ------------------------------------- create_forecast requests interleaved
\* request r reaches line 121: train_model writes the shared default model_path
RequestTrain(r, history_df, model_name, n_lags) ==
    /\ conc[r].phase = "idle"
    /\ LET trained == TrainModel(history_df, model_name, n_lags)
       IN  /\ store' = IF trained.dumped THEN trained.artifact ELSE store
           /\ conc' = [conc EXCEPT ![r].phase =
                                       IF trained.status = "trained" THEN "trained"
                                       ELSE "error",
                                   ![r].history_df = history_df,
                                   ![r].trained = trained.artifact]
    /\ UNCHANGED <<prior, train, call, enc, db, web, fetch>>

\* request r reaches line 123: predict_future loads the shared default model_path
RequestPredictStart(r, future_weather, steps) ==
    /\ conc[r].phase = "trained"
    /\ conc' = [conc EXCEPT ![r].phase = "called",
                            ![r].call = StartCall(store, conc[r].history_df,
                                                  future_weather, steps)]
    /\ UNCHANGED <<store, prior, train, call, enc, db, web, fetch>>

\* one iteration of the loop of request r's predict_future
RequestPredictStep(r) ==
    /\ conc[r].phase = "called"
    /\ conc[r].call.pc = "loop"
    /\ conc[r].call.i < conc[r].call.steps
    /\ conc' = [conc EXCEPT ![r].call = LoopStep(CallLocals(conc, r)),
                            ![r].overlapped =
                                @ \/ \E q \in Requests \ {r} :
                                         /\ conc[q].call.pc = "loop"
                                         /\ conc[q].call.i >= 1]
    /\ UNCHANGED <<store, prior, train, call, enc, db, web, fetch>>

\* request r's predict_future leaves the loop and returns or raises
RequestPredictFinish(r) ==
    /\ conc[r].phase = "called"
    /\ conc[r].call.pc = "loop"
    /\ conc[r].call.i = conc[r].call.steps
    /\ conc' = [conc EXCEPT ![r].call = Finish(CallLocals(conc, r))]
    /\ UNCHANGED <<store, prior, train, call, enc, db, web, fetch>>

NextConc ==
    \/ \E r \in Requests, history_df \in RequestHistories,
          model_name \in RequestModels, n_lags \in RequestLags :
           RequestTrain(r, history_df, model_name, n_lags)
    \/ \E r \in Requests, steps \in RequestSteps :
           RequestPredictStart(r, FutureTable(MaxSteps), steps)
    \/ \E r \in Requests : RequestPredictStep(r)
    \/ \E r \in Requests : RequestPredictFinish(r)

SpecConc == Init /\ [][NextConc]_vars

\* ------------------------------------------------- the fetchers on their own
\* the function is entered: the session is mounted with the retry adapter
FetchCall(fn, endpoint) ==
    /\ fetch.pc = "idle"
    /\ fetch' = [NoFetch EXCEPT !.fn = fn, !.endpoint = endpoint, !.pc = "get"]
    /\ UNCHANGED <<store, prior, train, call, enc, db, web, conc>>

\* session.get: one attempt; a failed one is retried until total is used up
FetchAttempt(outcome) ==
    /\ fetch.pc = "get"
    /\ fetch' =
          IF outcome = "response"
          THEN [fetch EXCEPT !.pc = "response", !.met = outcome]
          ELSE IF fetch.retries < RetryTotal
          THEN [fetch EXCEPT !.retries = @ + 1, !.met = outcome]
          ELSE [fetch EXCEPT !.pc = "except", !.met = outcome,
                             !.raised = ExhaustedError(outcome)]
    /\ UNCHANGED <<store, prior, train, call, enc, db, web, conc>>

\* raise_for_status, response.json() and the test for the data key
FetchResponse(status, body) ==
    /\ fetch.pc = "response"
    /\ fetch' =
          IF status = "error_status"
          THEN [fetch EXCEPT !.pc = "except", !.status = status,
                             !.raised = "HTTPError"]
          ELSE IF body = "not_json"
          THEN [fetch EXCEPT !.pc = "except", !.status = status, !.body = body,
                             !.raised = "JSONDecodeError"]
          ELSE [fetch EXCEPT !.pc = "done", !.status = status, !.body = body,
                             !.outcome = IF body = "with_key" THEN "table"
                                         ELSE "empty"]
    /\ UNCHANGED <<store, prior, train, call, enc, db, web, conc>>

\* the except clause of the function
FetchExcept ==
    /\ fetch.pc = "except"
    /\ LET handled == ExceptClause(fetch.fn, fetch.raised)
       IN  fetch' = [fetch EXCEPT !.pc = "done", !.outcome = handled.outcome,
                                  !.error = handled.error]
    /\ UNCHANGED <<store, prior, train, call, enc, db, web, conc>>

\* the caller has the table or the exception
FetchReturn ==
    /\ fetch.pc = "done"
    /\ fetch' = NoFetch
    /\ UNCHANGED <<store, prior, train, call, enc, db, web, conc>>

NextFetch ==
    \/ \E fn \in Fetchers : \E endpoint \in Endpoints(fn) : FetchCall(fn, endpoint)
    \/ \E outcome \in AttemptOutcomes : FetchAttempt(outcome)
    \/ \E status \in ResponseStatuses, body \in ResponseBodies :
           FetchResponse(status, body)
    \/ FetchExcept
    \/ FetchReturn

SpecFetch == Init /\ [][NextFetch]_vars

\* ================================================================== claims
Finished == call.pc \in {"returned", "failed"}

Loaded == call.pipeline # NoArtifact

\* the position of the input row with index timestamp t
PositionOf(X, t) == CHOOSE p \in 1..Len(X) : X[p].t = t

\* the number of target observations (non-missing values) in a table
Observations(X) == Cardinality({p \in 1..Len(X) : X[p].y # NaN})

\* the history supplies n valid prior target values for the first step
ValidHistoryTail(H, n) ==
    /\ Len(H) >= n
    /\ \A k \in 1..n : H[Len(H) - k + 1].y # NaN

\* C1: whenever predict_future returns, the forecast has exactly `steps` pairs,
\* in order; pair j carries the j-th index value of future_weather and the
\* prediction of step j.
C1_ForecastLength ==
    call.pc = "returned" =>
        /\ Len(call.result) = call.steps
        /\ Len(call.in_future) >= call.steps
        /\ \A j \in 1..call.steps :
              /\ call.result[j].plan_dtime = call.in_future[j].t
              /\ call.result[j].pv_output = call.preds[j]

C1_Witness ==
    /\ call.pc = "returned"
    /\ call.steps >= 2
    /\ Len(call.in_future) > call.steps
    /\ Len(call.result) = call.steps

\* C2: for a history that supplies n_lags valid trailing targets, at every step
\* i (0-based) that has a future row, the lag-k feature is the prediction of
\* step i-k when k <= i, and the observed target k-i rows from the end of the
\* supplied history otherwise.
C2_LagFeedback ==
    ValidHistoryTail(call.in_history, call.pipeline.n_lags) =>
        \A j \in 1..Len(call.feats) :
            j <= Len(call.in_future) =>
                \A k \in 1..call.pipeline.n_lags :
                    call.feats[j].lags[k] =
                        IF k <= j - 1
                        THEN call.preds[j - k]
                        ELSE call.in_history[Len(call.in_history) - (k - (j - 1)) + 1].y

\* step 2 ran with lag 1 = the prediction of step 1, which differs from the
\* placeholder written at step 1, and lag 2 = the prediction of step 0
C2_Witness ==
    /\ Loaded
    /\ call.pipeline.n_lags >= 2
    /\ ValidHistoryTail(call.in_history, call.pipeline.n_lags)
    /\ Len(call.feats) >= 3
    /\ Len(call.in_future) >= 3
    /\ call.feats[3].lags[1] = call.preds[2]
    /\ call.feats[3].lags[2] = call.preds[1]
    /\ call.preds[2] # call.preds[1]

\* C3: in every row that survives the transform, column lag_k is the target
\* value exactly k rows earlier in the input order, for all k in 1..n_lags.
C3_LagAlignment ==
    train.transformed =>
        \A j \in 1..Len(train.X_trans) :
            LET p == PositionOf(train.df, train.X_trans[j].t)
            IN  /\ DOMAIN train.X_trans[j].lags = 1..train.n_lags
                /\ \A k \in 1..train.n_lags :
                      /\ p - k >= 1
                      /\ train.X_trans[j].lags[k] = train.df[p - k].y

C3_Witness ==
    /\ train.transformed
    /\ train.n_lags >= 2
    /\ Len(train.X_trans) >= 2

\* C4 as claimed: the output has exactly R - n_lags rows, the input rows after
\* the first n_lags, in order.
C4_Original ==
    train.transformed =>
        /\ Len(train.X_trans) = Len(train.df) - train.n_lags
        /\ \A j \in 1..Len(train.X_trans) :
              train.X_trans[j].t = train.df[train.n_lags + j].t

\* the input positions whose n preceding target values all exist and are present
FullLagPositions(X, n) ==
    {p \in 1..Len(X) : p > n /\ \A k \in 1..n : X[p - k].y # NaN}

\* C4 amended: the output rows are exactly the input rows whose n_lags
\* preceding target values all exist and are not missing, in their original
\* order; for a table of R >= n_lags rows without missing targets these are
\* the R - n_lags rows after the first n_lags, and a shorter table gives none.
C4_RowCount ==
    train.transformed =>
        LET X == train.df
            n == train.n_lags
            out == train.X_trans
        IN  /\ Len(out) = Cardinality(FullLagPositions(X, n))
            /\ \A j \in 1..Len(out) : \E p \in FullLagPositions(X, n) : out[j].t = X[p].t
            /\ \A j1, j2 \in 1..Len(out) : j1 < j2 => out[j1].t < out[j2].t
            /\ (Len(X) >= n /\ Observations(X) = Len(X)) =>
                  /\ Len(out) = Len(X) - n
                  /\ \A j \in 1..Len(out) : out[j].t = X[n + j].t
            /\ Len(X) < n => Len(out) = 0

C4_Witness ==
    /\ train.transformed
    /\ Len(train.df) > TailWindow
    /\ train.n_lags = TailWindow
    /\ Len(train.X_trans) = Len(train.df) - TailWindow
    /\ Len(train.X_trans) >= 2

\* C5: the aligned labels are as many as the transformed feature rows, and the
\* i-th label is the target of the row the i-th feature row was built from,
\* which is row i + n_lags of the history.
C5_LabelAlignment ==
    train.transformed =>
        /\ Len(train.y_aligned) = Len(train.X_trans)
        /\ \A i \in 1..Len(train.X_trans) :
              /\ train.y_aligned[i] = train.df[PositionOf(train.df, train.X_trans[i].t)].y
              /\ train.y_aligned[i] = train.df[i + train.n_lags].y

\* C6: with fewer future rows than steps (and a usable history) the call fails
\* with InsufficientFutureData and returns no forecast.
C6_InsufficientFutureData ==
    ( /\ Finished
      /\ Loaded
      /\ ValidHistoryTail(call.in_history, call.pipeline.n_lags)
      /\ Len(call.in_future) < call.steps )
    => /\ call.pc = "failed"
       /\ call.error = "InsufficientFutureData"
       /\ call.result = <<>>

\* C7: with fewer than n_lags target observations in the history the call
\* fails with InsufficientHistoryTail at the first step, with no prediction made.
C7_InsufficientHistoryTail ==
    ( /\ Finished
      /\ Loaded
      /\ Observations(call.in_history) < call.pipeline.n_lags )
    => /\ call.pc = "failed"
       /\ call.error = "InsufficientHistoryTail"
       /\ call.i = 0
       /\ call.preds = <<>>

\* C8: with a history of n_lags rows or fewer, train_model fails with
\* InsufficientHistory, fits no regressor and writes no artifact.
C8_InsufficientHistory ==
    ( /\ train.status # "none"
      /\ ModuleFor(train.model_name) # "unbound"
      /\ Len(train.df) <= train.n_lags )
    => /\ train.status = "error"
       /\ train.error = "InsufficientHistory"
       /\ ~train.fitted
       /\ store = prior

\* C9: with an unregistered model_name, train_model fails with
\* UnknownRegressorKind before any fitting and the stored artifact stays as it was.
C9_UnknownRegressorKind ==
    ( /\ train.status # "none"
      /\ ModuleFor(train.model_name) = "unbound" )
    => /\ train.status = "error"
       /\ train.error = "UnknownRegressorKind"
       /\ ~train.fitted
       /\ store = prior

\* C10: during and after a predict_future call, successful or not, the caller's
\* history_df and future_weather hold the rows they held when the call began;
\* the growing history is a frame of the call's own.
C10_CallerTablesUnchanged ==
    call.pc # "idle" =>
        /\ call.history_df = call.in_history
        /\ call.future_weather = call.in_future
        /\ call.df.of = "own"

C10_Witness ==
    /\ call.pc = "returned"
    /\ Len(call.preds) >= 2
    /\ Len(call.df.val) = Len(call.in_history) + 2
    /\ call.history_df = call.in_history

\* C11: during a predict_future call the loaded pipeline keeps the scaler
\* statistics and regressor parameters it was loaded with, and these are the
\* ones train_model stored in the file; the file itself is not rewritten.
C11_ArtifactUnchanged ==
    (call.pc # "idle" /\ Loaded) =>
        /\ call.pipeline = call.in_pipeline
        /\ call.pipeline.scaler = store.scaler
        /\ call.pipeline.model = store.model
        /\ store = call.in_pipeline

C11_Witness ==
    /\ call.pc = "returned"
    /\ Len(call.preds) >= 2
    /\ call.pipeline = store
    /\ store # NoArtifact

\* the values a target cell can hold
TargetValues == (0..(ValMod - 1)) \cup {NaN}

\* the window of the latest step with the placeholder cell set to v
WindowWith(v) == [call.window EXCEPT ![Len(call.window)].y = v]

\* C15: at a step that has a future row, the feature row carries no target
\* column, and whatever value stands in the placeholder cell of that row, the
\* transform yields the same feature row and the regressor the same prediction.
C15_PlaceholderIrrelevant ==
    (Loaded /\ call.i >= 1 /\ call.i <= Len(call.in_future) /\ Len(call.feats) = call.i) =>
        /\ DOMAIN call.feats[call.i] = {"t", "w", "dt_hour", "lags"}
        /\ \A v \in TargetValues :
              LET features == TailRows(Transform(WindowWith(v), call.pipeline.n_lags), 1)
              IN  /\ features = <<call.feats[call.i]>>
                  /\ ModelPredict(call.pipeline.model,
                                  ScalerTransform(call.pipeline.scaler, features)[1])
                        = call.preds[call.i]

C15_Witness ==
    /\ Loaded
    /\ call.i >= 2
    /\ call.i <= Len(call.in_future)
    /\ Len(call.feats) = call.i
    /\ call.window[Len(call.window)].t = call.in_future[call.i].t
    /\ call.window[Len(call.window)].y = call.preds[call.i - 1]
    /\ call.preds[call.i] # call.preds[call.i - 1]

\* C17: for every n_lags of the artifact and every history whose last n_lags
\* target values exist, the trailing window taken from the history holds at
\* least n_lags rows, and no step that has a future row fails for want of a
\* feature row.
C17_WindowCoversLags ==
    (Loaded /\ call.pc # "idle"
        /\ ValidHistoryTail(call.in_history, call.pipeline.n_lags)) =>
        /\ Len(TailRows(call.df.val, TailWindow)) >= call.pipeline.n_lags
        /\ (call.pc = "failed" => call.i >= Len(call.in_future))

\* C16: at every step of predict_future that hands a feature row to the scaler,
\* the row's column names, in order, are those of the feature table the scaler
\* and the regressor of the loaded pipeline were fitted on, for the joined
\* history and the meteo forecast table of create_forecast.
C16_ColumnOrder ==
    (Loaded /\ call.i >= 1) =>
        /\ call.cols = call.pipeline.columns
        /\ call.pipeline.columns = store.columns
        /\ PvOutput \notin ColumnSet(call.cols)
        /\ Len(call.cols) = Len(MeteoColumns) + Len(DtColumns) + call.pipeline.n_lags

C16_Witness ==
    /\ Loaded
    /\ call.i >= 2
    /\ call.i <= Len(call.in_future)
    /\ call.cols = call.pipeline.columns
    /\ call.cols[1] = Col("temperature_2m")
    /\ call.cols[Len(call.cols)] = LagCol("fcst_pv_tot_gen", call.pipeline.n_lags)
    /\ call.df_cols = HistoryColumns

\* C14: whichever encoder built the day-of-year features of a row, the
\* denominator it used is 366 exactly when the row's year is a leap year and
\* 365 otherwise.
C14_LeapAwareDenominator ==
    enc.encoder # "none" =>
        /\ (enc.denominator = LeapYearLength <=> IsLeapYear(enc.year))
        /\ (enc.denominator = CommonYearLength <=> ~IsLeapYear(enc.year))

\* strictly increasing index values, hence unique ones
StrictlyIncreasing(table) ==
    \A j \in 1..(Len(table) - 1) : table[j].t < table[j + 1].t

\* C18: whatever fetches and uploads came before, the history table that
\* create_forecast hands to train_model and predict_future has unique,
\* strictly increasing timestamps.
C18_HistoryIndexMonotonic ==
    web.status # "none" => StrictlyIncreasing(web.history_df)

\* C20: every future-weather row create_forecast hands to predict_future is
\* later than every row of the history handed over with it, and so is every
\* timestamp of the forecast returned.
C20_FutureAfterHistory ==
    web.status # "none" =>
        /\ \A f \in IndexSet(web.future_weather), h \in IndexSet(web.history_df) : f > h
        /\ \A j \in 1..Len(web.result), h \in IndexSet(web.history_df) :
              web.result[j].plan_dtime > h

\* what the call would return when run alone on the inputs it was given
RunAlone(c) == PredictFuture(c.in_pipeline, c.in_history, c.in_future, c.steps)

\* C12: under every interleaving of the steps of two predict_future calls,
\* each call ends as it would when run alone on its artifact and inputs: from
\* every state it is in, finishing it gives the outcome of the lone run.
C12_ConcurrentAsAlone ==
    \A r \in Requests :
        conc[r].phase = "called" =>
            /\ RunLoop(conc[r].call) = RunAlone(conc[r].call)
            /\ (conc[r].call.pc = "returned" =>
                   conc[r].call.result = RunAlone(conc[r].call).result)

C12_Witness ==
    /\ \A r \in Requests :
          /\ conc[r].call.pc = "returned"
          /\ conc[r].overlapped
          /\ Len(conc[r].call.result) >= 2
    /\ conc[1].call.in_pipeline = conc[2].call.in_pipeline
    /\ conc[1].call.in_history # conc[2].call.in_history
    /\ conc[1].call.result # conc[2].call.result

C19_OwnArtifact ==
    \A r \in Requests :
        conc[r].phase = "called" => conc[r].call.in_pipeline = conc[r].trained

\* the HTTP request of the call failed: no usable response was obtained
RequestFailed == fetch.raised \in {"ConnectionError", "ConnectTimeout", "RetryError", "HTTPError"}

\* C21: when the HTTP request of a fetcher call failed (connection error,
\* timeout, or an error status left after the retries), the call returns an
\* empty table and raises nothing, in fetch_data_meteo as in
\* fetch_data_pse_inner.
C21_FailureGivesEmptyTable ==
    (fetch.pc = "done" /\ RequestFailed) =>
        /\ fetch.outcome = "empty"
        /\ fetch.error = "none"

====
